---- MODULE Spec2Model ----
(***************************************************************************)
(* The persistent location-delivery agent of DeviceTracker:                *)
(*   LocationTrackingService.kt  the foreground service (main thread,      *)
(*                               connectivity callbacks, one worker)       *)
(*   LocationTrackingModule.kt   the bridge (startTracking, stopTracking)  *)
(*   BootReceiver.kt             the boot receiver                         *)
(* The service's fields are the record svc; SharedPreferences are prefs    *)
(* (LocationTrackingState) and health (LocationTrackingHealth).            *)
(*                                                                         *)
(* Threads: the service's main thread handles the messages of inbox and    *)
(* the sensor callback; the connectivity callbacks run on their own        *)
(* thread; the single-thread executor runs the tasks of tasks in order.    *)
(* A size check followed by an offer is two steps, on either thread.       *)
(***************************************************************************)
EXTENDS Integers, Sequences, FiniteSets, TLC

VARIABLES
    prefs,          \* SharedPreferences "LocationTrackingState"
    health,         \* SharedPreferences "LocationTrackingHealth"
    host,           \* the host environment: network, providers, notifications
    inbox,          \* messages posted to the service's main thread, in order
    sysStarted,     \* the platform holds the service as started
    svc,            \* the fields of the service instance
    locationQueue,  \* ConcurrentLinkedQueue<Location>
    tasks,          \* the executor's FIFO of submitted tasks
    worker,         \* what the executor's thread is doing
    mainPc,         \* where the main thread is inside onLocationChanged
    nextId,         \* the capture number of the next sample
    now,            \* the clock, in seconds
    sendLog,        \* history: the requests made to the collector, in order
    dropped,        \* history: samples dropped by the sensor callback, queue full
    flushCtx,       \* history: the last unavailable->available transition
    lastEvent,      \* history: the last bridge call or host signal
    lastStart,      \* history: how the last handled start intent found the service
    used            \* history: how much of each budget is used

durable  == <<prefs, health>>
platform == <<host, inbox, sysStarted>>
delivery == <<locationQueue, tasks, worker, mainPc>>
history  == <<sendLog, dropped, flushCtx, lastEvent, lastStart>>
vars == <<prefs, health, host, inbox, sysStarted, svc, locationQueue, tasks,
          worker, mainPc, nextId, now, sendLog, dropped, flushCtx, lastEvent,
          lastStart, used>>

----------------------------------------------------------------------------
(* Bounds of the model *)

\* LocationTrackingService.kt:47 sets the limit to 100; the model runs the
\* same code with a small limit, so that a full queue is reached.
MAX_QUEUE_SIZE == 2
MaxSamples == 3
MaxNetEvents == 2
MaxBridgeCalls == 2
MaxHostSignals == 2

(* Program constants *)
MAX_CONSECUTIVE_FAILURES == 5
ACCURACY_CEILING == 50
SEND_THRESHOLD == 30

NULL == "null"
DeviceIds == {"d1", "d2"}
ServerUrls == {"u1", "u2"}
Accuracies == {20, 40, 60}
FgOutcomes == {"ok", "failOnce", "failTwice"}
LocOutcomes == {"ok", "noProvider", "securityException"}

FlushTask == [type |-> "flush", loc |-> 0, isQueued |-> FALSE]
SendTask(l, q) == [type |-> "send", loc |-> l, isQueued |-> q]
Idle == [pc |-> "idle", loc |-> 0, isQueued |-> FALSE]
StartMsg(d, u) == [type |-> "START", deviceId |-> d, serverUrl |-> u]
DestroyMsg == [type |-> "DESTROY", deviceId |-> NULL, serverUrl |-> NULL]
NoFlush == [active |-> FALSE, inFlight |-> FALSE, snap |-> <<>>, from |-> 0]

----------------------------------------------------------------------------
(* The service: fields and methods.  A method is an operator from the      *)
(* fields before to the fields after; stopSelf is the request the method   *)
(* made to the platform, consumed by the action that ran the method.       *)

\* the fields of a service object right after construction
NewService ==
    [live |-> TRUE, isTracking |-> FALSE, deviceId |-> NULL, serverUrl |-> NULL,
     wakeLock |-> FALSE, wakeLocks |-> 0, timers |-> 0, subscriptions |-> 0, executorUp |-> TRUE,
     isNetworkAvailable |-> TRUE, lastSuccessfulSendTime |-> 0,
     consecutiveFailures |-> 0, notificationCheckCounter |-> 0,
     callbackRegistered |-> FALSE, foreground |-> FALSE, notifShown |-> FALSE,
     stopSelf |-> FALSE]

NoService == [NewService EXCEPT !.live = FALSE, !.executorUp = FALSE]

\* the size check that guards every offer
QueueHasRoomOffByOne(q) == Len(q) <= MAX_QUEUE_SIZE
QueueHasRoom(q) == Len(q) < MAX_QUEUE_SIZE

\* flushLocationQueue reaches executor.execute on an executor that is shut
\* down: RejectedExecutionException, which no caller on the connectivity
\* thread catches
Rejected(s, q) == s.isNetworkAvailable /\ q # <<>> /\ ~s.executorUp

\* flushLocationQueue: the task it submits (the executor rejects it once shut down)
flushLocationQueueNever(s, q, t) == t
flushLocationQueue(s, q, t) ==
    IF ~s.isNetworkAvailable \/ q = <<>> THEN t
    ELSE IF s.executorUp THEN Append(t, FlushTask) ELSE t

\* checkNetworkState: the hint becomes what the platform reports
checkNetworkState(s) == [s EXCEPT !.isNetworkAvailable = host.netUp]

\* onCreate: executor, network callback, initial network check
onCreate(s) == checkNetworkState([s EXCEPT !.callbackRegistered = TRUE])

\* saveStateToPreferences
saveStateToPreferencesFlagOff(s) ==
    [is_tracking |-> FALSE, device_id |-> s.deviceId, server_url |-> s.serverUrl]
saveStateToPreferences(s) ==
    [is_tracking |-> TRUE, device_id |-> s.deviceId, server_url |-> s.serverUrl]

\* restoreStateFromPreferences: reads the two strings, not the flag
restoreStateFromPreferencesNothing(s, p) == s
restoreStateFromPreferences(s, p) ==
    [s EXCEPT !.deviceId = p.device_id, !.serverUrl = p.server_url]

\* updateNotification: startForeground, then notify if notifications are enabled
updateNotificationOnlyIfEnabled(s) ==
    [s EXCEPT !.foreground = host.notifEnabled, !.notifShown = (host.notifEnabled \/ @)]
updateNotification(s) ==
    [s EXCEPT !.foreground = TRUE, !.notifShown = (host.notifEnabled \/ @)]

\* ensureNotificationVisible
ensureNotificationVisible(s) ==
    IF s.isTracking THEN updateNotification(s) ELSE s

\* startTracking of the service, past its "already tracking" guard: wake lock,
\* foreground call (with one retry), periodic check, location updates
startTrackingBody(s) ==
    LET s1 == [s EXCEPT !.isTracking = TRUE, !.wakeLock = TRUE,
                        !.wakeLocks = @ + 1]
        s2 == IF host.fg = "ok"
              THEN [s1 EXCEPT !.foreground = TRUE,
                              !.notifShown = (host.notifEnabled \/ @),
                              !.timers = @ + 1]
              ELSE [s1 EXCEPT !.foreground = TRUE]
    IN  IF host.fg = "failTwice" THEN [s1 EXCEPT !.stopSelf = TRUE]
        ELSE IF host.loc = "ok" THEN [s2 EXCEPT !.subscriptions = @ + 1]
        ELSE [s2 EXCEPT !.stopSelf = TRUE]

\* startTracking of the service
startTrackingNoGuard(s) == startTrackingBody(s)
startTracking(s) == IF s.isTracking THEN s ELSE startTrackingBody(s)

\* stopTracking of the service
stopTracking(s) ==
    IF ~s.isTracking THEN s
    ELSE [s EXCEPT !.isTracking = FALSE, !.subscriptions = 0,
                   !.executorUp = FALSE, !.timers = 0,
                   !.wakeLock = FALSE,
                   !.wakeLocks = IF s.wakeLock THEN @ - 1 ELSE @]

\* saveHealthData
saveHealthDataKeepStatus(s, status) ==
    [status |-> health.status, last |-> s.lastSuccessfulSendTime]
saveHealthData(s, status) ==
    [status |-> status, last |-> s.lastSuccessfulSendTime]

\* onDestroy: stopTracking, unregister the callback, release the wake lock
onDestroyReleaseUnchecked(s) ==
    LET s1 == stopTracking(s)
    IN  [s1 EXCEPT !.live = FALSE, !.callbackRegistered = FALSE,
                   !.wakeLock = FALSE, !.wakeLocks = @ - 1,
                   !.foreground = FALSE, !.notifShown = FALSE]
onDestroy(s) ==
    LET s1 == stopTracking(s)
    IN  [s1 EXCEPT !.live = FALSE, !.callbackRegistered = FALSE,
                   !.wakeLock = FALSE,
                   !.wakeLocks = IF s1.wakeLock THEN @ - 1 ELSE @,
                   !.foreground = FALSE, !.notifShown = FALSE]

\* onStartCommand with a null intent
onStartCommandNull(s, p) ==
    LET s1 == restoreStateFromPreferences(s, p)
    IN  IF s1.deviceId # NULL /\ s1.serverUrl # NULL
        THEN startTracking(s1)
        ELSE [s1 EXCEPT !.stopSelf = TRUE]

\* onStartCommand with ACTION_START: the fields it sets before saving the state
onStartCommandStart(s, d, u) ==
    startTracking([s EXCEPT !.deviceId = d, !.serverUrl = u])

\* the agent is Running: tracking, subscribed to the sensor
Running == svc.live /\ svc.isTracking /\ svc.subscriptions > 0

----------------------------------------------------------------------------
(* The state of a process that has never started tracking *)

NoPrefs == [is_tracking |-> FALSE, device_id |-> NULL, server_url |-> NULL]
NoHealth == [status |-> "offline", last |-> 0]
HostOk == [netUp |-> TRUE, fg |-> "ok", loc |-> "ok", notifEnabled |-> TRUE]
NoBudget == [calls |-> 0, signals |-> 0, net |-> 0]

InitCold ==
    /\ prefs = NoPrefs
    /\ health = NoHealth
    /\ host = HostOk
    /\ inbox = <<>>
    /\ sysStarted = FALSE
    /\ svc = NoService
    /\ locationQueue = <<>>
    /\ tasks = <<>>
    /\ worker = Idle
    /\ mainPc = Idle
    /\ nextId = 1
    /\ now = 0
    /\ sendLog = <<>>
    /\ dropped = {}
    /\ flushCtx = NoFlush
    /\ lastEvent = "none"
    /\ lastStart = "none"
    /\ used = NoBudget

----------------------------------------------------------------------------
(* The bridge, LocationTrackingModule *)

\* no start intent is waiting on the main thread
NoStartPosted(box) == \A i \in DOMAIN box : box[i].type # "START"

\* what a request to stop the service, or the service's stopSelf, posts: the
\* platform destroys a service it holds as started, behind what it has
\* already delivered to the main thread
PostDestroy(box) ==
    IF sysStarted THEN Append(box, DestroyMsg) ELSE box

\* startTracking: the state is saved, the service launch succeeds
BridgeStartTracking(d, u) ==
    /\ used.calls < MaxBridgeCalls
    /\ prefs' = [is_tracking |-> TRUE, device_id |-> d, server_url |-> u]
    /\ inbox' = Append(inbox, StartMsg(d, u))
    /\ sysStarted' = TRUE
    /\ lastEvent' = "start"
    /\ used' = [used EXCEPT !.calls = @ + 1]
    /\ UNCHANGED <<health, host, svc, delivery, nextId, now, sendLog, dropped,
                   flushCtx, lastStart>>

\* startTracking: the state is saved, the service launch throws, the flag is cleared
BridgeStartTrackingFails(d, u) ==
    /\ used.calls < MaxBridgeCalls
    /\ prefs' = [is_tracking |-> FALSE, device_id |-> d, server_url |-> u]
    /\ lastEvent' = "startFailed"
    /\ used' = [used EXCEPT !.calls = @ + 1]
    /\ UNCHANGED <<health, platform, svc, delivery, nextId, now, sendLog, dropped,
                   flushCtx, lastStart>>

\* stopTracking: the state is cleared, stopService
BridgeStopTracking ==
    /\ used.calls < MaxBridgeCalls
    /\ prefs' = [is_tracking |-> FALSE, device_id |-> NULL, server_url |-> NULL]
    /\ inbox' = IF svc.live \/ ~NoStartPosted(inbox)
                THEN PostDestroy(inbox) ELSE inbox
    /\ sysStarted' = FALSE
    /\ lastEvent' = "stop"
    /\ used' = [used EXCEPT !.calls = @ + 1]
    /\ UNCHANGED <<health, host, svc, delivery, nextId, now, sendLog, dropped,
                   flushCtx, lastStart>>

----------------------------------------------------------------------------
(* The service's main thread *)

\* a fresh instance has a fresh queue and executor
FreshDelivery ==
    /\ locationQueue' = <<>>
    /\ tasks' = <<>>
    /\ worker' = Idle
    /\ mainPc' = Idle
    /\ flushCtx' = NoFlush

\* onCreate if there is no instance, then onStartCommand(ACTION_START)
ServiceStart ==
    /\ inbox # <<>> /\ Head(inbox).type = "START"
    /\ mainPc.pc = "idle"
    /\ LET m  == Head(inbox)
           s0 == IF svc.live THEN svc ELSE onCreate(NewService)
           s1 == onStartCommandStart(s0, m.deviceId, m.serverUrl)
       IN  /\ prefs' = saveStateToPreferences(
                           [s0 EXCEPT !.deviceId = m.deviceId, !.serverUrl = m.serverUrl])
           /\ svc' = [s1 EXCEPT !.stopSelf = FALSE]
           /\ inbox' = IF s1.stopSelf THEN PostDestroy(Tail(inbox)) ELSE Tail(inbox)
           /\ sysStarted' = (sysStarted /\ ~s1.stopSelf)
           /\ IF svc.live THEN UNCHANGED <<delivery, flushCtx>> ELSE FreshDelivery
           /\ lastStart' = IF s1.stopSelf THEN "failed"
                           ELSE IF ~s0.isTracking THEN "fresh"
                           ELSE IF <<m.deviceId, m.serverUrl>> = <<s0.deviceId, s0.serverUrl>>
                           THEN "same" ELSE "other"
    /\ UNCHANGED <<health, host, nextId, now, sendLog, dropped, lastEvent, used>>

\* the statements of onStartCommand(ACTION_START), in order, after which the
\* process may be killed: the fields are assigned (212-213), the state is saved
\* (216), then startTracking takes the wake lock (331-335), calls
\* startForeground (355 or 393) and requests location updates (411-427)
KillPoints == {"assigned", "saved", "wakeLock", "foreground", "subscribed"}
Acquiring == {"wakeLock", "foreground", "subscribed"}

\* the process is killed inside onStartCommand(ACTION_START), after the
\* statement pt: what the process held is gone, what it had written stays
ServiceStartKilled(pt) ==
    /\ inbox # <<>> /\ Head(inbox).type = "START"
    /\ mainPc.pc = "idle"
    /\ used.signals < MaxHostSignals
    /\ LET m  == Head(inbox)
           s0 == IF svc.live THEN svc ELSE onCreate(NewService)
       IN  /\ pt \in Acquiring => ~s0.isTracking
           /\ pt \in {"foreground", "subscribed"} => host.fg # "failTwice"
           /\ pt = "subscribed" => host.loc = "ok"
           /\ prefs' = IF pt = "assigned" THEN prefs
                       ELSE saveStateToPreferences(
                              [s0 EXCEPT !.deviceId = m.deviceId,
                                         !.serverUrl = m.serverUrl])
    /\ svc' = NoService
    /\ inbox' = <<>>
    /\ sysStarted' = TRUE
    /\ FreshDelivery
    /\ lastEvent' = "killed"
    /\ lastStart' = pt
    /\ used' = [used EXCEPT !.signals = @ + 1]
    /\ UNCHANGED <<health, host, nextId, now, sendLog, dropped>>

\* onDestroy
ServiceDestroy ==
    /\ inbox # <<>> /\ Head(inbox).type = "DESTROY"
    /\ mainPc.pc = "idle"
    /\ svc.live
    /\ svc' = onDestroy(svc)
    /\ health' = saveHealthData(stopTracking(svc), "offline")
    /\ inbox' = Tail(inbox)
    /\ UNCHANGED <<prefs, host, sysStarted, delivery, nextId, now, history, used>>

\* the process is relaunched with no start command: onCreate, onStartCommand(null)
ProcessRestart ==
    /\ used.signals < MaxHostSignals
    /\ LET s1 == onStartCommandNull(onCreate(NewService), prefs)
       IN  /\ svc' = [s1 EXCEPT !.stopSelf = FALSE]
           /\ inbox' = IF s1.stopSelf THEN <<DestroyMsg>> ELSE <<>>
           /\ sysStarted' = ~s1.stopSelf
    /\ FreshDelivery
    /\ lastEvent' = "restart"
    /\ lastStart' = IF lastEvent = "killed" THEN lastStart ELSE "none"
    /\ used' = [used EXCEPT !.signals = @ + 1]
    /\ UNCHANGED <<durable, host, nextId, now, sendLog, dropped>>

\* BootReceiver.onReceive: the start intent it sends, if any
BootReceiverOnReceive(p) ==
    IF p.is_tracking /\ p.device_id # NULL /\ p.server_url # NULL
    THEN <<StartMsg(p.device_id, p.server_url)>>
    ELSE <<>>

\* the device boots: nothing of the process is left, the receiver runs
BootCompleted ==
    /\ used.signals < MaxHostSignals
    /\ svc' = NoService
    /\ inbox' = BootReceiverOnReceive(prefs)
    /\ sysStarted' = (BootReceiverOnReceive(prefs) # <<>>)
    /\ FreshDelivery
    /\ lastEvent' = "boot"
    /\ lastStart' = "none"
    /\ used' = [used EXCEPT !.signals = @ + 1]
    /\ UNCHANGED <<durable, host, nextId, now, sendLog, dropped>>

\* the host changes what the next start will meet: the foreground call and the
\* location providers
HostChange(f, l) ==
    /\ <<f, l>> # <<host.fg, host.loc>>
    /\ host' = [host EXCEPT !.fg = f, !.loc = l]
    /\ UNCHANGED <<durable, inbox, sysStarted, svc, delivery, nextId, now, history, used>>

NextLifecycle ==
    \/ \E d \in DeviceIds, u \in ServerUrls : BridgeStartTracking(d, u)
    \/ \E d \in DeviceIds, u \in ServerUrls : BridgeStartTrackingFails(d, u)
    \/ BridgeStopTracking
    \/ ServiceStart
    \/ \E pt \in KillPoints : ServiceStartKilled(pt)
    \/ ServiceDestroy
    \/ ProcessRestart
    \/ BootCompleted
    \/ \E f \in FgOutcomes, l \in LocOutcomes : HostChange(f, l)

SpecLifecycle == InitCold /\ [][NextLifecycle]_vars

----------------------------------------------------------------------------
(* The sensor callback, on the main thread *)

NOTIFICATION_CHECK_EVERY == 10

\* the counter at the end of an accepted sample: every tenth one re-asserts
\* the notification
countSample(s) ==
    IF s.notificationCheckCounter + 1 >= NOTIFICATION_CHECK_EVERY
    THEN ensureNotificationVisible([s EXCEPT !.notificationCheckCounter = 0])
    ELSE [s EXCEPT !.notificationCheckCounter = @ + 1]

\* the two accuracy gates and the identity check of onLocationChanged
AcceptedUpToCeiling(s, acc) ==
    /\ s.isTracking
    /\ ~(acc > ACCURACY_CEILING)
    /\ s.deviceId # NULL /\ s.serverUrl # NULL
Accepted(s, acc) ==
    /\ s.isTracking
    /\ ~(acc > ACCURACY_CEILING)
    /\ acc <= SEND_THRESHOLD
    /\ s.deviceId # NULL /\ s.serverUrl # NULL

\* onLocationChanged up to and including the size check; the offer is MainOffer
OnLocationChanged(acc) ==
    /\ svc.live /\ svc.subscriptions > 0
    /\ mainPc.pc = "idle"
    /\ nextId <= MaxSamples
    /\ nextId' = nextId + 1
    /\ IF ~Accepted(svc, acc)
       THEN UNCHANGED <<svc, delivery, dropped>>
       ELSE IF svc.isNetworkAvailable
       THEN /\ tasks' = Append(tasks, SendTask(nextId, FALSE))
            /\ svc' = countSample(svc)
            /\ UNCHANGED <<locationQueue, worker, mainPc, dropped>>
       ELSE IF QueueHasRoom(locationQueue)
       THEN /\ mainPc' = [pc |-> "offer", loc |-> nextId, isQueued |-> FALSE]
            /\ UNCHANGED <<svc, locationQueue, tasks, worker, dropped>>
       ELSE /\ dropped' = dropped \cup {nextId}
            /\ svc' = countSample(updateNotification(svc))
            /\ UNCHANGED delivery
    /\ UNCHANGED <<durable, platform, now, sendLog, flushCtx, lastEvent, lastStart, used>>

\* the offer that follows a passed size check, and the rest of the callback
MainOffer ==
    /\ mainPc.pc = "offer"
    /\ locationQueue' = Append(locationQueue, mainPc.loc)
    /\ svc' = countSample(updateNotification(svc))
    /\ mainPc' = Idle
    /\ UNCHANGED <<durable, platform, tasks, worker, nextId, now, history, used>>

----------------------------------------------------------------------------
(* The connectivity callbacks, on the connectivity thread *)

\* an enqueue that has passed its size check and not yet made its offer
OfferInFlight == mainPc.pc = "offer" \/ worker.pc \in {"offer", "requeue"}

\* what the history keeps of a transition of the hint to available
Transition ==
    [active |-> TRUE, inFlight |-> OfferInFlight, snap |-> locationQueue,
     from |-> Len(sendLog)]

\* NetworkCallback.onAvailable
OnAvailable ==
    /\ svc.callbackRegistered
    /\ used.net < MaxNetEvents
    /\ host' = [host EXCEPT !.netUp = TRUE]
    /\ svc' = [svc EXCEPT !.isNetworkAvailable = TRUE]
    /\ tasks' = flushLocationQueue(svc', locationQueue, tasks)
    /\ flushCtx' = IF svc.isNetworkAvailable THEN flushCtx ELSE Transition
    /\ lastEvent' = IF Rejected(svc', locationQueue) THEN "uncaught" ELSE lastEvent
    /\ used' = [used EXCEPT !.net = @ + 1]
    /\ UNCHANGED <<durable, inbox, sysStarted, locationQueue, worker, mainPc,
                   nextId, now, sendLog, dropped, lastStart>>

\* NetworkCallback.onLost
OnLost ==
    /\ svc.callbackRegistered
    /\ used.net < MaxNetEvents
    /\ host' = [host EXCEPT !.netUp = FALSE]
    /\ svc' = [svc EXCEPT !.isNetworkAvailable = FALSE]
    /\ flushCtx' = [flushCtx EXCEPT !.active = FALSE]
    /\ used' = [used EXCEPT !.net = @ + 1]
    /\ UNCHANGED <<durable, inbox, sysStarted, delivery, nextId, now, sendLog,
                   dropped, lastEvent, lastStart>>

\* NetworkCallback.onCapabilitiesChanged
OnCapabilitiesChanged(hasInternet) ==
    /\ svc.callbackRegistered
    /\ used.net < MaxNetEvents
    /\ host' = [host EXCEPT !.netUp = hasInternet]
    /\ used' = [used EXCEPT !.net = @ + 1]
    /\ IF hasInternet /\ ~svc.isNetworkAvailable
       THEN /\ svc' = [svc EXCEPT !.isNetworkAvailable = TRUE]
            /\ tasks' = flushLocationQueue(svc', locationQueue, tasks)
            /\ flushCtx' = Transition
            /\ lastEvent' = IF Rejected(svc', locationQueue)
                            THEN "uncaught" ELSE lastEvent
       ELSE IF ~hasInternet
       THEN /\ svc' = [svc EXCEPT !.isNetworkAvailable = FALSE]
            /\ flushCtx' = [flushCtx EXCEPT !.active = FALSE]
            /\ UNCHANGED <<tasks, lastEvent>>
       ELSE UNCHANGED <<svc, tasks, flushCtx, lastEvent>>
    /\ UNCHANGED <<durable, inbox, sysStarted, locationQueue, worker, mainPc,
                   nextId, now, sendLog, dropped, lastStart>>

----------------------------------------------------------------------------
(* The executor's thread *)

Logged(outcome) ==
    Append(sendLog, [loc |-> worker.loc, isQueued |-> worker.isQueued,
                     outcome |-> outcome])

\* a failed send: one more consecutive failure
failed(s) == [s EXCEPT !.consecutiveFailures = @ + 1]

\* the health written at the end of a failed send
healthAfterFailureNever(s) == health
healthAfterFailure(s) ==
    IF s.consecutiveFailures >= MAX_CONSECUTIVE_FAILURES
    THEN saveHealthData(s, "stale") ELSE health

\* the executor has one thread (newSingleThreadScheduledExecutor): it takes
\* its next task when the task before has returned
ExecutorFreeAlways == TRUE
ExecutorFree == worker.pc = "idle"

\* the double check at the head of the task of sendLocationToServer: a fresh
\* sample is queued instead of sent if the hint is unavailable by now
QueueInsteadNever(s, t) == FALSE
QueueInstead(s, t) == ~s.isNetworkAvailable /\ ~t.isQueued

\* the task of sendLocationToServer starts: the hint is checked again, and a
\* fresh sample goes to the queue if the hint is now unavailable
SendBegin ==
    /\ ExecutorFree
    /\ tasks # <<>> /\ Head(tasks).type = "send"
    /\ tasks' = Tail(tasks)
    /\ LET t == Head(tasks)
       IN  worker' =
             IF QueueInstead(svc, t)
             THEN IF QueueHasRoom(locationQueue)
                  THEN [pc |-> "offer", loc |-> t.loc, isQueued |-> FALSE]
                  ELSE Idle
             ELSE [pc |-> "http", loc |-> t.loc, isQueued |-> t.isQueued]
    /\ UNCHANGED <<durable, platform, svc, locationQueue, mainPc, nextId, now,
                   history, used>>

\* the offer of a fresh sample whose task found the hint unavailable
SendOffer ==
    /\ worker.pc = "offer"
    /\ locationQueue' = Append(locationQueue, worker.loc)
    /\ worker' = Idle
    /\ UNCHANGED <<durable, platform, svc, tasks, mainPc, nextId, now, history, used>>

\* the collector answers 2xx
SendHttpOk ==
    /\ worker.pc = "http"
    /\ now' = now + 1
    /\ svc' = updateNotification(
                 [svc EXCEPT !.lastSuccessfulSendTime = now + 1,
                             !.consecutiveFailures = 0,
                             !.isNetworkAvailable = TRUE])
    /\ health' = saveHealthData(svc', "online")
    /\ sendLog' = Logged("ok")
    /\ worker' = Idle
    /\ UNCHANGED <<prefs, platform, locationQueue, tasks, mainPc, nextId,
                   dropped, flushCtx, lastEvent, lastStart, used>>

\* the collector answers another status: checkNetworkState, which may flush
SendHttpNon2xx ==
    /\ worker.pc = "http"
    /\ LET s1 == checkNetworkState(failed(svc))
       IN  /\ svc' = IF s1.consecutiveFailures >= MAX_CONSECUTIVE_FAILURES
                     THEN updateNotification(s1) ELSE s1
           /\ tasks' = flushLocationQueue(s1, locationQueue, tasks)
           /\ health' = healthAfterFailure(s1)
    /\ sendLog' = Logged("status")
    /\ flushCtx' = [flushCtx EXCEPT !.active = FALSE]
    /\ worker' = Idle
    /\ UNCHANGED <<prefs, platform, locationQueue, mainPc, nextId, now, dropped,
                   lastEvent, lastStart, used>>

\* the request throws IOException: the hint becomes unavailable, and a fresh
\* sample passes the size check for its requeue
SendHttpIOException ==
    /\ worker.pc = "http"
    /\ svc' = [failed(svc) EXCEPT !.isNetworkAvailable = FALSE]
    /\ sendLog' = Logged("ioerror")
    /\ flushCtx' = [flushCtx EXCEPT !.active = FALSE]
    /\ IF QueueHasRoom(locationQueue) /\ ~worker.isQueued
       THEN /\ worker' = [worker EXCEPT !.pc = "requeue"]
            /\ UNCHANGED health
       ELSE /\ worker' = Idle
            /\ health' = healthAfterFailure(svc')
    /\ UNCHANGED <<prefs, platform, locationQueue, tasks, mainPc, nextId, now,
                   dropped, lastEvent, lastStart, used>>

\* the offer of a fresh sample whose request threw IOException
SendRequeue ==
    /\ worker.pc = "requeue"
    /\ locationQueue' = Append(locationQueue, worker.loc)
    /\ health' = healthAfterFailure(svc)
    /\ worker' = Idle
    /\ UNCHANGED <<prefs, platform, svc, tasks, mainPc, nextId, now, history, used>>

\* the request throws another exception: checkNetworkState, which may flush
SendHttpException ==
    /\ worker.pc = "http"
    /\ LET s1 == checkNetworkState(failed(svc))
       IN  /\ svc' = s1
           /\ tasks' = flushLocationQueue(s1, locationQueue, tasks)
           /\ health' = healthAfterFailure(s1)
    /\ sendLog' = Logged("error")
    /\ flushCtx' = [flushCtx EXCEPT !.active = FALSE]
    /\ worker' = Idle
    /\ UNCHANGED <<prefs, platform, locationQueue, mainPc, nextId, now, dropped,
                   lastEvent, lastStart, used>>

\* locationQueue.poll(): the queue without its head, which the caller holds
pollKeepsHead(q) == q
poll(q) == Tail(q)

\* the task of flushLocationQueue starts
FlushBegin ==
    /\ ExecutorFree
    /\ tasks # <<>> /\ Head(tasks).type = "flush"
    /\ tasks' = Tail(tasks)
    /\ worker' = [pc |-> "flush", loc |-> 0, isQueued |-> FALSE]
    /\ UNCHANGED <<durable, platform, svc, locationQueue, mainPc, nextId, now,
                   history, used>>

\* one turn of the flush loop: poll, sendLocationToServer(location, true), which
\* submits a task and returns; once shut down the executor rejects the task, the
\* loop puts the entry back if the size check allows, and ends
FlushLoop ==
    /\ worker.pc = "flush"
    /\ IF locationQueue # <<>> /\ svc.isNetworkAvailable
       THEN IF svc.executorUp
            THEN /\ locationQueue' = poll(locationQueue)
                 /\ tasks' = Append(tasks, SendTask(Head(locationQueue), TRUE))
                 /\ UNCHANGED worker
            ELSE /\ locationQueue' =
                      IF QueueHasRoom(poll(locationQueue))
                      THEN Append(poll(locationQueue), Head(locationQueue))
                      ELSE poll(locationQueue)
                 /\ worker' = Idle
                 /\ UNCHANGED tasks
       ELSE /\ worker' = Idle
            /\ UNCHANGED <<locationQueue, tasks>>
    /\ UNCHANGED <<durable, platform, svc, mainPc, nextId, now, history, used>>

\* one run of the periodic task scheduled by startTracking, on the
\* executor's thread
PresenceCheck ==
    /\ ExecutorFree
    /\ svc.live /\ svc.executorUp /\ svc.timers > 0
    /\ svc' = ensureNotificationVisible(svc)
    /\ UNCHANGED <<durable, platform, delivery, nextId, now, history, used>>

NextDelivery ==
    \/ \E acc \in Accuracies : OnLocationChanged(acc)
    \/ MainOffer
    \/ OnAvailable
    \/ OnLost
    \/ \E b \in BOOLEAN : OnCapabilitiesChanged(b)
    \/ SendBegin
    \/ SendOffer
    \/ SendHttpOk
    \/ SendHttpNon2xx
    \/ SendHttpIOException
    \/ SendRequeue
    \/ SendHttpException
    \/ FlushBegin
    \/ FlushLoop
    \/ PresenceCheck

\* the state once startTracking("d1", "u1") of the bridge has returned and the
\* service has handled its start intent, the host refusing nothing
InitRunning ==
    /\ prefs = [is_tracking |-> TRUE, device_id |-> "d1", server_url |-> "u1"]
    /\ health = NoHealth
    /\ host = HostOk
    /\ inbox = <<>>
    /\ sysStarted = TRUE
    /\ svc = [NewService EXCEPT
                !.callbackRegistered = TRUE, !.deviceId = "d1", !.serverUrl = "u1",
                !.isTracking = TRUE, !.wakeLock = TRUE, !.wakeLocks = 1,
                !.foreground = TRUE, !.notifShown = TRUE, !.timers = 1,
                !.subscriptions = 1]
    /\ locationQueue = <<>>
    /\ tasks = <<>>
    /\ worker = Idle
    /\ mainPc = Idle
    /\ nextId = 1
    /\ now = 0
    /\ sendLog = <<>>
    /\ dropped = {}
    /\ flushCtx = NoFlush
    /\ lastEvent = "start"
    /\ lastStart = "fresh"
    /\ used = [NoBudget EXCEPT !.calls = MaxBridgeCalls, !.signals = MaxHostSignals]

SpecDelivery == InitRunning /\ [][NextDelivery]_vars

\* the same running service with one connectivity transition of the host left
InitSending ==
    /\ prefs = [is_tracking |-> TRUE, device_id |-> "d1", server_url |-> "u1"]
    /\ health = NoHealth
    /\ host = HostOk
    /\ inbox = <<>>
    /\ sysStarted = TRUE
    /\ svc = [NewService EXCEPT
                !.callbackRegistered = TRUE, !.deviceId = "d1", !.serverUrl = "u1",
                !.isTracking = TRUE, !.wakeLock = TRUE, !.wakeLocks = 1,
                !.foreground = TRUE, !.notifShown = TRUE, !.timers = 1,
                !.subscriptions = 1]
    /\ locationQueue = <<>>
    /\ tasks = <<>>
    /\ worker = Idle
    /\ mainPc = Idle
    /\ nextId = 1
    /\ now = 0
    /\ sendLog = <<>>
    /\ dropped = {}
    /\ flushCtx = NoFlush
    /\ lastEvent = "start"
    /\ lastStart = "fresh"
    /\ used = [NoBudget EXCEPT !.calls = MaxBridgeCalls, !.signals = MaxHostSignals,
                                !.net = MaxNetEvents - 1]

SpecSending == InitSending /\ [][NextDelivery]_vars

Next == NextLifecycle \/ NextDelivery
Spec == InitCold /\ [][Next]_vars

\* the state InitRunning is a state the lifecycle reaches
RunningStateReached ==
    /\ svc = [NewService EXCEPT
                !.callbackRegistered = TRUE, !.deviceId = "d1", !.serverUrl = "u1",
                !.isTracking = TRUE, !.wakeLock = TRUE, !.wakeLocks = 1,
                !.foreground = TRUE, !.notifShown = TRUE, !.timers = 1,
                !.subscriptions = 1]
    /\ prefs = [is_tracking |-> TRUE, device_id |-> "d1", server_url |-> "u1"]
    /\ inbox = <<>> /\ sysStarted /\ host = HostOk /\ health = NoHealth

----------------------------------------------------------------------------
(* Properties of the delivery path, checked under SpecDelivery *)

Range(f) == {f[i] : i \in DOMAIN f}

\* C1: in every reachable state the offline queue holds at most
\* MAX_QUEUE_SIZE entries, whatever the interleaving of the sensor callback's
\* and the worker's size checks and offers.
C1_QueueNeverExceedsLimit == Len(locationQueue) <= MAX_QUEUE_SIZE

\* an accepted sample arrives while the hint is unavailable and the queue is full
EnqueueOnFullQueue ==
    /\ \E acc \in Accuracies : Accepted(svc, acc) /\ OnLocationChanged(acc)
    /\ ~svc.isNetworkAvailable
    /\ Len(locationQueue) >= MAX_QUEUE_SIZE

Held(l) ==
    \/ l \in Range(locationQueue)
    \/ \E i \in DOMAIN tasks : tasks[i].type = "send" /\ tasks[i].loc = l
    \/ worker.pc \in {"offer", "http", "requeue"} /\ worker.loc = l

\* C3: a queued entry taken from the queue whose send failed is not lost: as
\* long as no later send of it is logged, it is back in the queue (or on its
\* way to the collector again).
C3_FailedQueuedEntryNotLost ==
    \A i \in DOMAIN sendLog :
        ( /\ sendLog[i].isQueued
          /\ sendLog[i].outcome # "ok"
          /\ \A j \in DOMAIN sendLog : j > i => sendLog[j].loc # sendLog[i].loc )
        => Held(sendLog[i].loc)

\* nothing is running or waiting on either thread
Quiescent == worker = Idle /\ tasks = <<>> /\ mainPc = Idle

\* the samples of the requests made since the last transition, in order
SentSinceTransition ==
    [i \in 1..(Len(sendLog) - flushCtx.from) |-> sendLog[flushCtx.from + i].loc]

\* since the last transition the hint stayed available and every send succeeded
CleanSinceTransition ==
    /\ flushCtx.active
    /\ \A i \in DOMAIN sendLog : i > flushCtx.from => sendLog[i].outcome = "ok"

C5_SentInCaptureOrder ==
    \A i, j \in DOMAIN sendLog :
        (i < j /\ sendLog[i].loc > sendLog[j].loc) =>
            \E k \in DOMAIN sendLog :
                k < j /\ sendLog[k].loc = sendLog[j].loc /\ sendLog[k].outcome # "ok"

----------------------------------------------------------------------------
(* Properties of the lifecycle, checked under SpecLifecycle *)

\* C6: once stopTracking of the bridge has completed and the service is gone,
\* with nothing left for it to handle, a relaunch of the process with a null
\* intent does not resume tracking: the agent stays Stopped.
C6_StopThenRestartStaysStopped ==
    [][(lastEvent = "stop" /\ ~svc.live /\ inbox = <<>> /\ ProcessRestart)
         => (~svc'.isTracking /\ ~Running')]_vars

\* C7: neither host signal (relaunch with a null intent, boot completed)
\* starts tracking when is_tracking is false at that moment.
C7_SignalsGatedByIsTracking ==
    [][(~prefs.is_tracking /\ (ProcessRestart \/ BootCompleted)) =>
         (~svc'.isTracking /\ NoStartPosted(inbox'))]_vars

\* the host lets a start through: a foreground call succeeds (at once or on
\* the retry) and a location provider is enabled and permitted
HostLetsStart == host.fg # "failTwice" /\ host.loc = "ok"

\* C8: a relaunch with a null intent, with is_tracking true and a device id
\* and a server url in the preferences, makes the agent Running with those
\* two values and without any call of the bridge, where the host lets the
\* start through; with the device id or the server url absent the agent does
\* not track.
C8_RestartResumesFromPreferences ==
    [][ProcessRestart =>
         IF prefs.device_id # NULL /\ prefs.server_url # NULL
         THEN (prefs.is_tracking /\ HostLetsStart) =>
                 /\ Running'
                 /\ svc'.deviceId = prefs.device_id
                 /\ svc'.serverUrl = prefs.server_url
                 /\ prefs' = prefs
         ELSE ~svc'.isTracking /\ ~Running' /\ NoStartPosted(inbox')]_vars

\* C8 witness: the agent is Running by a relaunch, from preferences with
\* is_tracking true
C8_ResumedByRestart ==
    /\ lastEvent = "restart" /\ lastStart = "none"
    /\ Running /\ prefs.is_tracking
    /\ svc.deviceId = prefs.device_id /\ svc.serverUrl = prefs.server_url

\* the preferences as the start of the running session left them
PrefsOfRunningSession ==
    prefs = [is_tracking |-> TRUE, device_id |-> svc.deviceId,
             server_url |-> svc.serverUrl]

\* C9: a second start with the identity and endpoint of the running session
\* changes neither the preferences nor any field of the service (the call of
\* the bridge and the handling of its intent alike), and the service never
\* holds more than one subscription, wake lock or periodic check.
C9_SecondSameStartChangesNothing ==
    /\ [](svc.subscriptions <= 1 /\ svc.wakeLocks <= 1 /\ svc.timers <= 1)
    /\ [][ /\ ( /\ ServiceStart /\ Running /\ PrefsOfRunningSession
                /\ Head(inbox).deviceId = svc.deviceId
                /\ Head(inbox).serverUrl = svc.serverUrl )
              => (prefs' = prefs /\ svc' = svc)
           /\ ( /\ BridgeStartTracking(svc.deviceId, svc.serverUrl)
                /\ Running /\ PrefsOfRunningSession )
              => (prefs' = prefs /\ svc' = svc) ]_vars

\* C9 witness: a start intent with the running session's identity and
\* endpoint has been handled while Running
C9_SecondSameStartHandled ==
    lastStart = "same" /\ Running /\ PrefsOfRunningSession

\* C10: a start intent handled while the agent is Running changes neither
\* the identity and endpoint the service sends with nor those in the
\* preferences: they stay those of the running session.
C10_StartWhileRunningKeepsSession ==
    [][(ServiceStart /\ Running) =>
         /\ svc'.deviceId = svc.deviceId
         /\ svc'.serverUrl = svc.serverUrl
         /\ prefs'.device_id = svc.deviceId
         /\ prefs'.server_url = svc.serverUrl]_vars

\* C11: a start whose handler is killed after its first resource acquisition
\* (wake lock, foreground call or sensor subscription) has already written
\* is_tracking = true with the identity and endpoint of the start, and the
\* relaunch that follows the kill resumes tracking with them where the host
\* lets the start through.
C11_SavedBeforeAcquiring ==
    /\ [][\A pt \in Acquiring : ServiceStartKilled(pt) =>
             prefs' = [is_tracking |-> TRUE,
                       device_id |-> Head(inbox).deviceId,
                       server_url |-> Head(inbox).serverUrl]]_vars
    /\ [][(lastEvent = "killed" /\ lastStart \in Acquiring
             /\ ProcessRestart /\ HostLetsStart) =>
             /\ prefs.is_tracking
             /\ Running'
             /\ svc'.deviceId = prefs.device_id
             /\ svc'.serverUrl = prefs.server_url]_vars

\* C11 witness: tracking has resumed by the relaunch that followed a kill
\* inside a start that already held a resource
C11_ResumedAfterKillInStart ==
    /\ lastEvent = "restart" /\ lastStart \in Acquiring
    /\ Running /\ prefs.is_tracking

\* C12: once stopTracking of the bridge has returned and the service has
\* handled every message posted before it, the agent is not Running, holds no
\* sensor subscription, and is_tracking is false in the preferences.
C12_StopLeavesStopped ==
    (lastEvent = "stop" /\ inbox = <<>>) =>
        /\ ~Running
        /\ svc.subscriptions = 0
        /\ ~prefs.is_tracking

\* C14: a service instance that has terminated, by whichever path, holds no
\* wake lock; and releasing is idempotent: after stopTracking, a second
\* stopTracking changes nothing and onDestroy (which releases again) leaves
\* the wake lock as it was, as does a second onDestroy.
C14_WakeLockReleasedOnEveryPath ==
    /\ svc.wakeLocks \in {0, 1}
    /\ ~svc.live => (svc.wakeLocks = 0 /\ ~svc.wakeLock)
    /\ LET s1 == stopTracking(svc)
           s2 == onDestroy(s1)
       IN  /\ s1.wakeLocks = 0 /\ ~s1.wakeLock
           /\ stopTracking(s1) = s1
           /\ s2.wakeLocks = 0 /\ ~s2.wakeLock
           /\ onDestroy(s2) = s2

\* C14 witness: an instance whose start failed after it had taken the wake lock
\* has stopped itself and been destroyed
C14_DestroyedAfterFailedStart ==
    /\ ~svc.live /\ svc.deviceId # NULL
    /\ lastStart = "failed"
    /\ svc.wakeLocks = 0

\* a call of startTracking of the bridge, whichever way the launch goes
StartRequested ==
    \E d \in DeviceIds, u \in ServerUrls :
        BridgeStartTracking(d, u) \/ BridgeStartTrackingFails(d, u)

\* the promise of the call just made was rejected (lastEvent is "start" when
\* it was resolved with true)
PromiseRejected == lastEvent = "startFailed"

\* C15: a call of startTracking made while no location provider is enabled
\* ends with its promise rejected.
C15_NoProviderStartRejected ==
    [][(host.loc = "noProvider" /\ StartRequested) => PromiseRejected']_vars

\* the agent is Stopped because its last start failed: the start intent was
\* handled, an acquisition failed, and the instance has been destroyed, with
\* no call of the bridge and no host signal since
StoppedByFailedStart ==
    /\ lastStart = "failed" /\ lastEvent = "start"
    /\ ~svc.live /\ inbox = <<>>

\* C16: when a start has failed at an acquisition (no provider,
\* SecurityException, the foreground call failing twice) and the agent is
\* Stopped because of it, what the start had acquired is released and the
\* preferences do not say is_tracking (so isTracking() does not report true).
C16_FailedStartLeavesStateConsistent ==
    StoppedByFailedStart =>
        /\ svc.wakeLocks = 0 /\ svc.subscriptions = 0 /\ svc.timers = 0
        /\ ~svc.foreground /\ ~svc.isTracking
        /\ ~prefs.is_tracking

\* LocationHealthModule.getHealthStatus: the stored status, "offline" if none
getHealthStatus == health.status

\* C19: whenever the reported health status is offline the agent is not
\* Running.
C19_OfflineOnlyWhenNotRunning ==
    getHealthStatus = "offline" => ~Running

\* C17: once five sends in a row have failed (network error, other status,
\* other error, in any mix) with no success in between, and the handler of the
\* fifth failure has ended, the reported health status is stale.
C17_FiveFailuresReportStale ==
    (svc.consecutiveFailures >= MAX_CONSECUTIVE_FAILURES /\ worker.pc # "requeue")
        => getHealthStatus = "stale"

\* C17 witness: five requests in a row have failed, by more than one kind of
\* failure, and the status is stale
C17_StaleAfterFiveFailures ==
    /\ svc.consecutiveFailures = MAX_CONSECUTIVE_FAILURES
    /\ Len(sendLog) = MAX_CONSECUTIVE_FAILURES
    /\ \E i, j \in DOMAIN sendLog : sendLog[i].outcome # sendLog[j].outcome
    /\ getHealthStatus = "stale"

\* C18: every send answered 2xx sets the last-success time (the field and the
\* stored one) to the time of the answer, resets the count of consecutive
\* failures to 0 and stores the status online, whatever they were before.
C18_SuccessResetsHealth ==
    [][SendHttpOk =>
         /\ svc'.lastSuccessfulSendTime = now' /\ now' > now
         /\ svc'.consecutiveFailures = 0
         /\ health' = [status |-> "online", last |-> now']]_vars

\* C18 witness: a success has followed five failures in a row (status stale)
C18_OnlineAfterStale ==
    /\ Len(sendLog) = MAX_CONSECUTIVE_FAILURES + 1
    /\ \A i \in 1..MAX_CONSECUTIVE_FAILURES : sendLog[i].outcome # "ok"
    /\ sendLog[MAX_CONSECUTIVE_FAILURES + 1].outcome = "ok"
    /\ svc.consecutiveFailures = 0
    /\ getHealthStatus = "online"

----------------------------------------------------------------------------
(* Stopping while the delivery path is at work, checked under SpecShutdown *)

\* the state of InitRunning, with one call of the bridge still to come
InitStoppable ==
    /\ prefs = [is_tracking |-> TRUE, device_id |-> "d1", server_url |-> "u1"]
    /\ health = NoHealth
    /\ host = HostOk
    /\ inbox = <<>>
    /\ sysStarted = TRUE
    /\ svc = [NewService EXCEPT
                !.callbackRegistered = TRUE, !.deviceId = "d1", !.serverUrl = "u1",
                !.isTracking = TRUE, !.wakeLock = TRUE, !.wakeLocks = 1,
                !.foreground = TRUE, !.notifShown = TRUE, !.timers = 1,
                !.subscriptions = 1]
    /\ locationQueue = <<>>
    /\ tasks = <<>>
    /\ worker = Idle
    /\ mainPc = Idle
    /\ nextId = 1
    /\ now = 0
    /\ sendLog = <<>>
    /\ dropped = {}
    /\ flushCtx = NoFlush
    /\ lastEvent = "start"
    /\ lastStart = "fresh"
    /\ used = [NoBudget EXCEPT !.calls = MaxBridgeCalls - 1,
                               !.signals = MaxHostSignals]

\* the delivery path, stopTracking of the bridge, and the onDestroy it causes;
\* the executor's thread goes on with the tasks it has after shutdown()
NextShutdown ==
    \/ NextDelivery
    \/ BridgeStopTracking
    \/ ServiceDestroy

SpecShutdown == InitStoppable /\ [][NextShutdown]_vars

\* the agent has stopped: stopTracking of the bridge, and onDestroy has run
Stopped == lastEvent = "stop" /\ ~svc.live

\* C13: once the agent has stopped, no request to the collector begins: the
\* worker starts no send task that goes on to the request (a request already
\* begun when the stop happened may end).
C13_NoSendBeginsAfterStop ==
    [][(Stopped /\ SendBegin) => worker'.pc # "http"]_vars

\* C20: once the agent has stopped and neither thread has anything left to
\* do, the reported health status is offline.
C20_OfflineOnceStoppedAndIdle ==
    (Stopped /\ Quiescent /\ inbox = <<>>) => getHealthStatus = "offline"

----------------------------------------------------------------------------
(* Time passing while the agent runs, checked under SpecClock *)

\* the furthest the clock is let run
MaxClock == 90

\* the period of the presence check, in seconds: the step of the clock
PRESENCE_PERIOD == 30

\* the reporting window of the health status, in seconds
REPORTING_WINDOW == 60

\* time passes with the service doing nothing: no code of the service runs
\* that would look at the clock or the last-success time
Tick ==
    /\ now < MaxClock
    /\ now' = now + PRESENCE_PERIOD
    /\ UNCHANGED <<durable, platform, svc, delivery, nextId, history, used>>

NextClock ==
    \/ NextDelivery
    \/ Tick

SpecClock == InitRunning /\ [][NextClock]_vars

\* C21: while the agent is Running and has had a successful send, the
\* reported status is stale once more than the reporting window (60 s) has
\* passed since the last successful send, whatever the count of failures.
C21_StaleOnceWindowExceeded ==
    ( /\ Running
      /\ svc.lastSuccessfulSendTime > 0
      /\ now - svc.lastSuccessfulSendTime > REPORTING_WINDOW )
        => getHealthStatus = "stale"

----------------------------------------------------------------------------
(* Properties of the sensor callback, checked under SpecDelivery *)

\* C22: a sample whose accuracy is worse than the 30 m send threshold (in the
\* 30-50 m band or beyond 50 m) is not forwarded: the callback that receives
\* it leaves the queue, the executor's tasks, the worker and the log of sends
\* as they were, and drops nothing from the queue; a sample is forwarded only
\* by a callback with accuracy at or below the threshold while tracking.
C22_OnlyAccurateSamplesForwarded ==
    [][\A acc \in Accuracies :
          OnLocationChanged(acc) =>
             IF acc <= SEND_THRESHOLD /\ svc.isTracking
             THEN \/ tasks' = Append(tasks, SendTask(nextId, FALSE))
                  \/ mainPc'.loc = nextId
                  \/ nextId \in dropped'
             ELSE UNCHANGED <<locationQueue, tasks, worker, mainPc, sendLog,
                              dropped>>]_vars

\* C22 witness: two samples were received; the first was filtered, the second
\* is the only one on its way to the collector
C22_OneFilteredOneForwarded ==
    /\ nextId = 3
    /\ tasks = <<SendTask(2, FALSE)>>
    /\ locationQueue = <<>> /\ worker = Idle /\ mainPc = Idle
    /\ sendLog = <<>> /\ dropped = {}

----------------------------------------------------------------------------
(* Properties of the executor, checked under SpecDelivery *)

\* a request to the collector is in flight
SendInFlight == worker.pc = "http"

\* C23: at most one send is in flight at any time. A request to the
\* collector begins only by the executor's thread taking a send task, fresh
\* or drained from the queue, when the task before it has returned; while a
\* request is in flight no other begins, whatever the sensor callback, the
\* connectivity callbacks, the flush loop and the periodic task do; and every
\* request logged is the one that was in flight.
C23_OneSendInFlight ==
    [][ /\ (SendInFlight' /\ worker' # worker) =>
              (worker.pc = "idle" /\ SendBegin)
        /\ (SendInFlight /\ worker' # worker) =>
              /\ Len(sendLog') = Len(sendLog) + 1
              /\ sendLog'[Len(sendLog')].loc = worker.loc
        /\ (sendLog' # sendLog) =>
              (SendInFlight /\ ~SendInFlight' /\ Len(sendLog') = Len(sendLog) + 1)
      ]_vars

\* C23 witness: a request for a fresh sample is in flight while a drained
\* queue entry and another fresh sample wait on the executor
C23_SendsWaitBehindOneInFlight ==
    /\ SendInFlight
    /\ \E i, j \in DOMAIN tasks :
          /\ tasks[i].type = "send" /\ tasks[i].isQueued
          /\ tasks[j].type = "send" /\ ~tasks[j].isQueued

\* C24: a fresh sample whose request ends in a delivery failure, a network
\* error or a response other than 2xx, is put in the queue for a later retry
\* when the queue has room: at the end of the failed request the worker is
\* about to offer it, or it is in the queue already.
C24_FailedFreshSendRequeued ==
    [][( /\ SendInFlight /\ ~worker.isQueued
         /\ QueueHasRoom(locationQueue)
         /\ (SendHttpNon2xx \/ SendHttpIOException) )
       => \/ (worker'.pc = "requeue" /\ worker'.loc = worker.loc)
          \/ worker.loc \in Range(locationQueue')]_vars

----------------------------------------------------------------------------
(* The lifecycle with any string as an argument of the bridge's startTracking: *)
(* the bridge takes two Strings and checks neither                            *)

EMPTY == ""
DeviceArgs == DeviceIds \cup {EMPTY}
UrlArgs == ServerUrls \cup {EMPTY}

NextAnyArgs ==
    \/ \E d \in DeviceArgs, u \in UrlArgs : BridgeStartTracking(d, u)
    \/ \E d \in DeviceArgs, u \in UrlArgs : BridgeStartTrackingFails(d, u)
    \/ BridgeStopTracking
    \/ ServiceStart
    \/ \E pt \in KillPoints : ServiceStartKilled(pt)
    \/ ServiceDestroy
    \/ ProcessRestart
    \/ BootCompleted
    \/ \E f \in FgOutcomes, l \in LocOutcomes : HostChange(f, l)

SpecAnyArgs == InitCold /\ [][NextAnyArgs]_vars

\* the string is present and not empty
NonEmpty(str) == str # NULL /\ str # EMPTY

\* C25: whenever is_tracking is true in the preferences, device_id and
\* server_url are both present and non-empty, whatever strings startTracking
\* was called with and whatever stops, failed launches, relaunches and boots
\* happened.
C25_ActiveImpliesIdentityAndEndpoint ==
    prefs.is_tracking => (NonEmpty(prefs.device_id) /\ NonEmpty(prefs.server_url))

----------------------------------------------------------------------------
(* One session on a host where notifications are disabled: the bridge's     *)
(* start, the service's handling of it, then the delivery path              *)

\* the cold state of a process on a host that has notifications disabled
InitSilent ==
    /\ prefs = NoPrefs
    /\ health = NoHealth
    /\ host = [HostOk EXCEPT !.notifEnabled = FALSE]
    /\ inbox = <<>>
    /\ sysStarted = FALSE
    /\ svc = NoService
    /\ locationQueue = <<>>
    /\ tasks = <<>>
    /\ worker = Idle
    /\ mainPc = Idle
    /\ nextId = 1
    /\ now = 0
    /\ sendLog = <<>>
    /\ dropped = {}
    /\ flushCtx = NoFlush
    /\ lastEvent = "none"
    /\ lastStart = "none"
    /\ used = [NoBudget EXCEPT !.calls = MaxBridgeCalls - 1,
                               !.signals = MaxHostSignals,
                               !.net = MaxNetEvents - 1]

NextSilent ==
    \/ \E d \in {"d1"}, u \in {"u1"} : BridgeStartTracking(d, u)
    \/ ServiceStart
    \/ NextDelivery

SpecSilent == InitSilent /\ [][NextSilent]_vars

\* the sample of this callback went to the worker, to the queue, or met a
\* full queue
Forwarded ==
    \/ tasks' = Append(tasks, SendTask(nextId, FALSE))
    \/ mainPc' = [pc |-> "offer", loc |-> nextId, isQueued |-> FALSE]
    \/ (nextId \in dropped' /\ ~QueueHasRoom(locationQueue))

\* C26: with notifications disabled on the host, the start still reaches
\* Running, with the mandatory foreground call made and no notification
\* shown; every accepted sample is still sent or queued; and nothing the
\* agent does afterwards, the periodic presence check included, ends the
\* Running state, drops the foreground claim or asks the platform to stop
\* the service.
C26_RunsWithNotificationsDisabled ==
    [][~host.notifEnabled =>
         /\ ServiceStart => (Running' /\ svc'.foreground /\ ~svc'.notifShown)
         /\ \A acc \in Accuracies :
               (OnLocationChanged(acc) /\ Accepted(svc, acc)) => Forwarded
         /\ Running => (Running' /\ svc'.foreground /\ ~svc'.notifShown
                          /\ inbox' = <<>> /\ sysStarted')
      ]_vars

\* C26 witness: Running with notifications disabled and none shown, one sample
\* delivered, one waiting in the queue
C26_DeliveringWithoutNotification ==
    /\ ~host.notifEnabled /\ Running /\ svc.foreground /\ ~svc.notifShown
    /\ \E i \in DOMAIN sendLog : sendLog[i].outcome = "ok"
    /\ locationQueue # <<>>

----------------------------------------------------------------------------
(* Properties of the presence signal *)

\* C27: in every state in which the agent is Running, the periodic presence
\* check is scheduled on a live executor, by whichever path the start
\* reached Running (first foreground call, or its retry after a failure).
C27_RunningHasPresenceCheck ==
    Running => (svc.timers >= 1 /\ svc.executorUp)

----------------------------------------------------------------------------
(* Properties of the drain and of the connectivity hint, checked under     *)
(* SpecDelivery                                                            *)

\* the last request logged was for a drained queue entry, it ended in a
\* network error, and the hint has not gone back to available since
DrainJustFailed ==
    /\ sendLog # <<>>
    /\ sendLog[Len(sendLog)].isQueued
    /\ sendLog[Len(sendLog)].outcome = "ioerror"
    /\ Len(sendLog) > flushCtx.from
    /\ ~svc.isNetworkAvailable

\* C28: the first failed send of a drain stops the drain: until the next
\* flush trigger no request is made for a queue entry positioned after the
\* failed one.
C28_FailedSendStopsDrain ==
    [][(DrainJustFailed /\ SendBegin /\ Head(tasks).isQueued)
         => ~SendInFlight']_vars

\* the sample l is about to be offered to the queue by the thread at pc
Offering(pc, l) == pc = [pc |-> "offer", loc |-> l, isQueued |-> FALSE]

\* C29: a send that fails with a network error leaves the hint unavailable;
\* and while the hint is unavailable no request is begun for a fresh sample:
\* the sensor callback submits nothing to the worker and the worker, taking
\* a fresh sample that was submitted before the hint flipped, makes no
\* request; in both places the sample goes to the queue, or is dropped when
\* the queue is full.
C29_UnavailableHintQueuesFreshSamples ==
    [][ /\ SendHttpIOException => ~svc'.isNetworkAvailable
        /\ ~svc.isNetworkAvailable =>
             /\ \A acc \in Accuracies :
                   (OnLocationChanged(acc) /\ Accepted(svc, acc)) =>
                      /\ tasks' = tasks
                      /\ IF QueueHasRoom(locationQueue)
                         THEN Offering(mainPc', nextId)
                         ELSE nextId \in dropped' /\ mainPc' = Idle
             /\ (SendBegin /\ ~Head(tasks).isQueued) =>
                   /\ ~SendInFlight'
                   /\ IF QueueHasRoom(locationQueue)
                      THEN Offering(worker', Head(tasks).loc)
                      ELSE worker' = Idle
        /\ MainOffer => locationQueue' = Append(locationQueue, mainPc.loc)
        /\ SendOffer => locationQueue' = Append(locationQueue, worker.loc)
      ]_vars

\* C29 witness: after a network error, with the hint unavailable, the worker
\* has taken a fresh sample that was already waiting on it and is putting it
\* in the queue, behind the requeued one, without a request of its own
C29_ScheduledSampleQueuedAfterError ==
    /\ ~svc.isNetworkAvailable
    /\ Len(sendLog) = 1 /\ sendLog[1].outcome = "ioerror" /\ sendLog[1].loc = 1
    /\ locationQueue = <<1>>
    /\ Offering(worker, 2)

\* C30: once the agent has stopped, the presence signal is not asserted
\* again: no step after the stop, of the periodic check or of a send that
\* ends after it, makes the foreground call or posts the notification.
C30_NoPresenceAfterStop ==
    Stopped => (~svc.foreground /\ ~svc.notifShown)

----------------------------------------------------------------------------
(* Eventual delivery: the network stays reachable and the host emits no    *)
(* connectivity callback; the collector is down for the first request and  *)
(* answers 2xx from then on                                                *)

\* the collector is down: the first request of the session throws IOException
CollectorDown == sendLog = <<>> /\ SendHttpIOException

\* what the executor's thread does by itself, once a task is submitted. No
\* flush task is ever submitted here: flushLocationQueue is called by the
\* connectivity callbacks and by checkNetworkState, which runs in onCreate
\* and after a request that ended with a status or another exception
WorkerStep ==
    \/ SendBegin
    \/ SendOffer
    \/ SendHttpOk
    \/ SendRequeue
    \/ PresenceCheck

NextEventual ==
    \/ \E acc \in Accuracies : OnLocationChanged(acc)
    \/ MainOffer
    \/ CollectorDown
    \/ WorkerStep

\* the executor runs every task it was given, a request that is not refused
\* is answered, and the main thread finishes the callback it is in; the
\* sensor and the collector's outage are not obliged to happen
SpecEventual ==
    /\ InitRunning
    /\ [][NextEventual]_vars
    /\ WF_vars(WorkerStep)
    /\ WF_vars(MainOffer)

\* the sample has been delivered: a request for it was answered 2xx
Delivered(l) ==
    \E i \in DOMAIN sendLog : sendLog[i].loc = l /\ sendLog[i].outcome = "ok"

\* C31: while the agent stays Running with the network reachable and the
\* collector answering 2xx, every sample sitting in the queue is eventually
\* delivered, also when the hint was made unavailable by a failed send and
\* no connectivity callback follows.
C31_QueuedEventuallyDelivered ==
    \A l \in 1..MaxSamples :
        (l \in Range(locationQueue)) ~> Delivered(l)

----------------------------------------------------------------------------
(* Successive instances of the service: the delivery path, the bridge's    *)
(* stop and the onDestroy it causes, and a relaunch of the process         *)

\* the running state, with one call of the bridge and one host signal to come
InitSessions ==
    /\ prefs = [is_tracking |-> TRUE, device_id |-> "d1", server_url |-> "u1"]
    /\ health = NoHealth
    /\ host = HostOk
    /\ inbox = <<>>
    /\ sysStarted = TRUE
    /\ svc = [NewService EXCEPT
                !.callbackRegistered = TRUE, !.deviceId = "d1", !.serverUrl = "u1",
                !.isTracking = TRUE, !.wakeLock = TRUE, !.wakeLocks = 1,
                !.foreground = TRUE, !.notifShown = TRUE, !.timers = 1,
                !.subscriptions = 1]
    /\ locationQueue = <<>>
    /\ tasks = <<>>
    /\ worker = Idle
    /\ mainPc = Idle
    /\ nextId = 1
    /\ now = 0
    /\ sendLog = <<>>
    /\ dropped = {}
    /\ flushCtx = NoFlush
    /\ lastEvent = "start"
    /\ lastStart = "fresh"
    /\ used = [NoBudget EXCEPT !.calls = MaxBridgeCalls - 1,
                               !.signals = MaxHostSignals - 1,
                               !.net = MaxNetEvents - 1]

NextSessions ==
    \/ NextDelivery
    \/ BridgeStopTracking
    \/ ServiceDestroy
    \/ ProcessRestart

SpecSessions == InitSessions /\ [][NextSessions]_vars

\* C32: the persisted last-success time never decreases: no write of the
\* health preferences, in any instance of the service, replaces the recorded
\* time by an older one or by 0.
C32_LastSuccessNeverDecreases ==
    [][health'.last >= health.last]_vars

----------------------------------------------------------------------------
(* Concurrent flush triggers: accepted samples, the three callers of       *)
(* flushLocationQueue (onAvailable, onCapabilitiesChanged and, after a     *)
(* request answered with a status, checkNetworkState) and the executor     *)

NextFlush ==
    \/ \E acc \in {a \in Accuracies : a <= SEND_THRESHOLD} : OnLocationChanged(acc)
    \/ MainOffer
    \/ OnAvailable
    \/ OnLost
    \/ \E b \in BOOLEAN : OnCapabilitiesChanged(b)
    \/ SendBegin
    \/ SendOffer
    \/ SendHttpOk
    \/ SendHttpNon2xx
    \/ SendHttpIOException
    \/ SendRequeue
    \/ FlushBegin
    \/ FlushLoop

SpecFlush == InitRunning /\ [][NextFlush]_vars

\* how many times the sample was handed to the sender as a queued entry
QueuedHandoffs(l) ==
    Cardinality({i \in DOMAIN tasks : tasks[i] = SendTask(l, TRUE)})
      + Cardinality({i \in DOMAIN sendLog :
                        sendLog[i].isQueued /\ sendLog[i].loc = l})
      + (IF SendInFlight /\ worker.isQueued /\ worker.loc = l THEN 1 ELSE 0)

\* how many entries of the queue hold the sample
TimesInQueue(l) ==
    Cardinality({i \in DOMAIN locationQueue : locationQueue[i] = l})

\* C33: a queued entry is handed to the sender at most once for each time it
\* was put in the queue, however many flushes were triggered: a sample is put
\* in the queue at most once, and it is in the queue, or handed to the sender
\* once, never both and never twice.
C33_QueuedEntryHandedOnce ==
    \A l \in 1..MaxSamples : TimesInQueue(l) + QueuedHandoffs(l) <= 1

\* C33 witness: two flushes were triggered back to back; the first has
\* drained two entries to the sender and the second is waiting behind it
C33_SecondFlushBehindFirstDrain ==
    \E i, j, k \in DOMAIN tasks :
        /\ i < j /\ i < k
        /\ tasks[i] = FlushTask
        /\ tasks[j] = SendTask(1, TRUE)
        /\ tasks[k] = SendTask(2, TRUE)

----------------------------------------------------------------------------
(* The stop, with onDestroy in two steps: the connectivity callbacks run   *)
(* on their own thread and may arrive between stopTracking (line 709) and  *)
(* the unregistration of the callback (line 716)                           *)

\* onDestroy up to saveHealthData: stopTracking shuts the executor down
ServiceDestroyBegin ==
    /\ inbox # <<>> /\ Head(inbox).type = "DESTROY"
    /\ mainPc.pc = "idle"
    /\ svc.live
    /\ svc' = stopTracking(svc)
    /\ health' = saveHealthData(stopTracking(svc), "offline")
    /\ mainPc' = [pc |-> "destroying", loc |-> 0, isQueued |-> FALSE]
    /\ UNCHANGED <<prefs, platform, locationQueue, tasks, worker, nextId, now,
                   history, used>>

\* the rest of onDestroy: the callback is unregistered, the wake lock released
ServiceDestroyEnd ==
    /\ mainPc.pc = "destroying"
    /\ svc' = onDestroy(svc)
    /\ inbox' = Tail(inbox)
    /\ mainPc' = Idle
    /\ UNCHANGED <<durable, host, sysStarted, locationQueue, tasks, worker,
                   nextId, now, history, used>>

\* an exception nobody caught has ended the process
Crashed == lastEvent = "uncaught"

\* the steps of the delivery path and of the stop, while the process lives
NextTeardown ==
    \/ ~Crashed /\ (\E acc \in Accuracies : OnLocationChanged(acc))
    \/ ~Crashed /\ MainOffer
    \/ ~Crashed /\ OnAvailable
    \/ ~Crashed /\ OnLost
    \/ ~Crashed /\ (\E b \in BOOLEAN : OnCapabilitiesChanged(b))
    \/ ~Crashed /\ SendBegin
    \/ ~Crashed /\ SendOffer
    \/ ~Crashed /\ SendHttpOk
    \/ ~Crashed /\ SendHttpNon2xx
    \/ ~Crashed /\ SendHttpIOException
    \/ ~Crashed /\ SendRequeue
    \/ ~Crashed /\ SendHttpException
    \/ ~Crashed /\ FlushBegin
    \/ ~Crashed /\ FlushLoop
    \/ ~Crashed /\ PresenceCheck
    \/ ~Crashed /\ BridgeStopTracking
    \/ ~Crashed /\ ServiceDestroyBegin
    \/ ~Crashed /\ ServiceDestroyEnd

SpecTeardown == InitStoppable /\ [][NextTeardown]_vars

\* C34: no interleaving of the stop with the host's callbacks ends in an
\* unhandled error: a connectivity callback that arrives after the executor
\* was shut down and before the callback is unregistered, with entries in
\* the queue, submits nothing to the shut-down executor.
C34_NoUnhandledErrorAtStop == ~Crashed

====
